---------------------------- MODULE Spec2Model ----------------------------
(***************************************************************************)
(* Actuator-disk wind farm of MicroHH: Turbine (disk footprint, dynamic    *)
(* yaw, thrust/power, force injection) and Windfarm (layout build with     *)
(* boundary validation, per-step loop over the turbines, aggregate power). *)
(*                                                                         *)
(* Numbers.  Lengths are integers in units of half a horizontal grid cell  *)
(* (dx = 2), so that cell centres, 0.5*diam and the stagger offset are     *)
(* exact.  Times are integers.  Every other real quantity (velocities,     *)
(* angles in radians, weights, coefficients, thrust, power) is held in     *)
(* fixed point with three decimals: the integer n stands for n/1000.       *)
(* Products and quotients round toward zero, as a model of the rounding    *)
(* of TF arithmetic.  cos, sin, atan2, exp and sqrt are computed (series   *)
(* and Newton iteration) in that fixed point.                              *)
(***************************************************************************)
EXTENDS Integers, Sequences, FiniteSets, TLC

(***************************************************************************)
(* Bounds of the model.                                                    *)
(***************************************************************************)
itot == 4
jtot == 3
ktot == 2
MaxRows == 2
MaxCols == 2
MaxTime == 2
MaxCalls == 3

(***************************************************************************)
(* Fixed-point arithmetic.                                                 *)
(***************************************************************************)
Scale == 10 * 10 * 10

Pi == 3142

Abs(a) == IF a < 0 THEN -a ELSE a

\* Quotient rounded toward zero (b > 0).
TDiv(a, b) == IF a >= 0 THEN a \div b ELSE -((-a) \div b)

FMul(a, b) == TDiv(a * b, Scale)

FDiv(a, b) == IF b > 0 THEN TDiv(a * Scale, b) ELSE -TDiv(a * Scale, -b)

\* cos x, x in [-pi, pi]: 1 - x^2/2 (1 - x^2/12 (1 - x^2/30 (1 - ...))).
\* One factor of the nested series: 1 - x2 * inner / d.
Term(x2, inner, d) == Scale - TDiv(FMul(x2, inner), d)

CosSeries(x2) ==
    Term(x2, Term(x2, Term(x2, Term(x2, Term(x2, Term(x2, Scale, 132), 90),
                                        56), 30), 12), 2)

Cos(x) == CosSeries(FMul(x, x))

\* sin x, x in [-pi, pi]: x (1 - x^2/6 (1 - x^2/20 (1 - x^2/42 (1 - ...)))).
SinSeries(x2) ==
    Term(x2, Term(x2, Term(x2, Term(x2, Term(x2, Term(x2, Scale, 156), 110),
                                        72), 42), 20), 6)

Sin(x) == FMul(x, SinSeries(FMul(x, x)))

\* atan z for |z| <= 1: z (pi/4 + 0.273 (1 - |z|)).
Atan(z) == FMul(z, TDiv(Pi, 4) + FMul(273, Scale - Abs(z)))

\* atan2(y, x) in (-pi, pi]; atan2(0, 0) = 0.
Atan2(y, x) ==
    IF x = 0 /\ y = 0 THEN 0
    ELSE IF Abs(y) <= Abs(x)
         THEN Atan(FDiv(y, x))
              + (IF x > 0 THEN 0 ELSE IF y >= 0 THEN Pi ELSE -Pi)
         ELSE (IF y > 0 THEN TDiv(Pi, 2) ELSE -TDiv(Pi, 2))
              - Atan(FDiv(x, y))

\* exp(-t), t >= 0: the series below 1/4, squaring of exp(-t/2) above.
Square(a) == FMul(a, a)

RECURSIVE ExpNeg(_)
ExpNeg(t) ==
    IF t <= 250
    THEN Scale - t + TDiv(FMul(t, t), 2) - TDiv(FMul(FMul(t, t), t), 6)
    ELSE Square(ExpNeg(t \div 2))

\* Integer square root (floor) by Newton iteration.
RECURSIVE SqrtIter(_, _)
SqrtIter(n, x) ==
    LET y == (x + n \div x) \div 2
    IN  IF y >= x THEN x ELSE SqrtIter(n, y)

\* sqrt of an integer n >= 0, in fixed point.
Sqrt(n) == IF n = 0 THEN 0 ELSE SqrtIter(n * Scale * Scale, n * Scale * Scale)

RECURSIVE SumSeq(_)
SumSeq(s) == IF s = <<>> THEN 0 ELSE s[1] + SumSeq(Tail(s))

(***************************************************************************)
(* The grid handed over by the host solver (grid.get_grid_data()): a       *)
(* uniform grid with one ghost cell on every side.                         *)
(***************************************************************************)
igc == 1
jgc == 1
kgc == 1
dx == 2
dy == 2
dz == 2

istart == igc
iend == igc + itot
jstart == jgc
jend == jgc + jtot
kstart == kgc
kend == kgc + ktot

icells == itot + 2 * igc
jcells == jtot + 2 * jgc
kcells == ktot + 2 * kgc
ncells == icells * jcells * kcells

jstride == icells
kstride == icells * jcells

xsize == itot * dx
ysize == jtot * dy

\* Cell-centre coordinates, ghost cells included.
gd_x == [i \in 0..(icells - 1) |-> (i - istart) * dx + dx \div 2]
gd_y == [j \in 0..(jcells - 1) |-> (j - jstart) * dy + dy \div 2]
gd_z == [k \in 0..(kcells - 1) |-> (k - kstart) * dz + dz \div 2]


(***************************************************************************)
(* Inputs: the configuration (the [windfarm] and [turbine] sections of the *)
(* .ini file), the contents of the layout file, the initial flow field.    *)
(***************************************************************************)
\* The layout files, each a sequence of lines "x y hh".
Files ==
    { <<>>,
      <<<<1, 3, -1>>, <<3, 3, 3>>>>,
      <<<<3, 3, 3>>, <<4, 3, 0>>>>,
      <<<<4, 3, 0>>, <<8, 1, -1>>, <<1, 3, -1>>>>,
      <<<<8, 1, -1>>>> }

\* The times exec is called with: before, at and after turbstarttime.
Times == 0..MaxTime

TurbineConfigs ==
    [diam : {2, 4}, hhub : {2}, ct : {750}, cp : {500},
     swdynyaw : BOOLEAN, yawperiod : {1}, turbstarttime : {1}]

ProceduralConfigs ==
    [nturbrows : 0..MaxRows, nturbcols : 0..MaxCols, spacingx : {1, 3},
     spacingy : {1}, swstaggered : BOOLEAN, farmlocx : {1}, farmlocy : {1},
     layoutfile : {""}]

FileConfigs ==
    [nturbrows : {1}, nturbcols : {1}, spacingx : {0}, spacingy : {0},
     swstaggered : {FALSE}, farmlocx : {0}, farmlocy : {0},
     layoutfile : {"layout.txt"}]

\* The initial winds (u, v), uniform over the grid.
Winds == {<<2000, 1000>>, <<-1000, 500>>}

(***************************************************************************)
(* Turbine                                                                 *)
(***************************************************************************)
\* Turbine::Turbine: the parameters read from the input, the hub-height
\* override, position, yaw = 0, next_yaw = turbstarttime, area, power = 0.
Turbine(c, xin, yin, hhub_in) ==
    [diam |-> c.diam,
     hhub |-> IF hhub_in > 0 THEN hhub_in ELSE c.hhub,
     ct |-> c.ct, cp |-> c.cp,
     swdynyaw |-> c.swdynyaw, yawperiod |-> c.yawperiod,
     turbstarttime |-> c.turbstarttime,
     xpos |-> xin, ypos |-> yin,
     yaw |-> 0, next_yaw |-> c.turbstarttime,
     area |-> TDiv(Pi * c.diam * c.diam, 4),
     k_hub |-> 0, indices |-> <<>>, weights |-> <<>>,
     power |-> 0]

\* The scan of nearest_index from index i on: idx is the best index so far
\* and md its distance; a later index wins only with a strictly smaller one.
RECURSIVE nearest_scan(_, _, _, _, _, _)
nearest_scan(val, arr, i, e, idx, md) ==
    IF i >= e THEN idx
    ELSE LET d == Abs(arr[i] * Scale - val)
         IN  IF d < md THEN nearest_scan(val, arr, i + 1, e, i, d)
             ELSE nearest_scan(val, arr, i + 1, e, idx, md)

\* A faulty variant of nearest_index: a later index wins a tie.
RECURSIVE nearest_scan_ties_up(_, _, _, _, _, _)
nearest_scan_ties_up(val, arr, i, e, idx, md) ==
    IF i >= e THEN idx
    ELSE LET d == Abs(arr[i] * Scale - val)
         IN  IF d <= md THEN nearest_scan_ties_up(val, arr, i + 1, e, i, d)
             ELSE nearest_scan_ties_up(val, arr, i + 1, e, idx, md)

nearest_index_ties_up(val, arr, s, e) ==
    nearest_scan_ties_up(val, arr, s + 1, e, s, Abs(arr[s] * Scale - val))

\* nearest_index(val, arr, s, e), val in fixed point.
nearest_index(val, arr, s, e) ==
    nearest_scan(val, arr, s + 1, e, s, Abs(arr[s] * Scale - val))

\* Turbine::create, the vertical index closest to hub height.
hub_index(hhub) == nearest_index(hhub * Scale, gd_z, kstart, kend)

\* Turbine::create, the loop over the interior cells (j outer, i inner),
\* n counting the cells visited: the flattened indices and the unnormalised
\* Gaussian weights of the cells whose centre lies within the rotor radius.
RECURSIVE disk_scan(_, _, _, _)
disk_scan(t, n, indices, weights) ==
    IF n >= itot * jtot THEN [indices |-> indices, weights |-> weights]
    ELSE LET i == istart + (n % itot)
             j == jstart + (n \div itot)
             Delta == TDiv(15 * dx, 10)
             radius == TDiv(t.diam * Scale, 2)
             ddx == gd_x[i] - t.xpos
             ddy == gd_y[j] - t.ypos
             r2 == ddx * ddx + ddy * ddy
         IN  IF Sqrt(r2) <= radius
             THEN disk_scan(t, n + 1,
                            Append(indices, i + j * jstride + t.k_hub * kstride),
                            Append(weights,
                                   ExpNeg(TDiv(6 * r2 * Scale, Delta * Delta))))
             ELSE disk_scan(t, n + 1, indices, weights)

\* A faulty variant of normalise: the weights are left as computed.
normalise_skipped(weights) == weights

\* Turbine::create, the normalisation of the weights.
normalise(weights) ==
    LET wsum == SumSeq(weights)
    IN  IF wsum > 0
        THEN [n \in 1..Len(weights) |-> FDiv(weights[n], wsum)]
        ELSE weights

\* Turbine::create.
Turbine_create(t) ==
    LET th == [t EXCEPT !.k_hub = hub_index(t.hhub)]
        fp == disk_scan(th, 0, <<>>, <<>>)
    IN  [th EXCEPT !.indices = fp.indices, !.weights = normalise(fp.weights)]

\* Turbine::exec, the lookup of the upstream sample: the point (xref, yref)
\* and the interior column (iu, ju) nearest to it.
upstream_column(xref, yref) ==
    [xref |-> xref, yref |-> yref,
     iu |-> nearest_index(xref, gd_x, istart, iend),
     ju |-> nearest_index(yref, gd_y, jstart, jend)]

\* The sample one diameter upstream of the turbine along its yaw.
upstream_sample(t) ==
    upstream_column(t.xpos * Scale - t.diam * Cos(t.yaw),
                    t.ypos * Scale - t.diam * Sin(t.yaw))

\* The wind direction at hub height in the column s: atan2(v, u).
wind_direction(t, s, u, v) ==
    Atan2(v[s.iu + s.ju * jstride + t.k_hub * kstride],
          u[s.iu + s.ju * jstride + t.k_hub * kstride])

\* yaw += (target - yaw) * 0.2.
relax(t, target) == [t EXCEPT !.yaw = t.yaw + FMul(target - t.yaw, 200)]

yaw_toward(t, s, u, v) ==
    [t |-> relax(t, wind_direction(t, s, u, v)), sample |-> s]

\* A faulty variant of yaw_update: the next update is scheduled from the call's time.
yaw_update_from_now(t, u, v, time) ==
    [yaw_toward(t, upstream_sample(t), u, v)
        EXCEPT !.t.next_yaw = time + t.yawperiod]

\* Turbine::exec, the dynamic yaw update: the sample one diameter upstream,
\* the relaxation of yaw toward the wind direction there, the next update time.
yaw_update(t, u, v, time) ==
    [yaw_toward(t, upstream_sample(t), u, v)
        EXCEPT !.t.next_yaw = t.next_yaw + t.yawperiod]

\* Turbine::exec, the disk-averaged velocity along yaw, summed from entry n on.
RECURSIVE disk_mean(_, _, _, _)
disk_mean(t, u, v, n) ==
    IF n > Len(t.indices) THEN 0
    ELSE FMul(t.weights[n],
              FMul(u[t.indices[n]], Cos(t.yaw)) + FMul(v[t.indices[n]], Sin(t.yaw)))
         + disk_mean(t, u, v, n + 1)

thrust_of(t, umean) == FMul(FMul(FMul(500, t.ct), umean), Abs(umean))

power_of(t, umean) ==
    FMul(FMul(FMul(FMul(FMul(t.cp, 500), umean), umean), umean), t.area)

\* A faulty variant of apply_force: the forcing lands one cell to the right.
RECURSIVE apply_force_shifted(_, _, _, _)
apply_force_shifted(t, thrust, fld, n) ==
    IF n > Len(t.indices) THEN fld
    ELSE LET idx == t.indices[n] + 1
             f == FMul(thrust, t.weights[n])
         IN  apply_force_shifted(t, thrust,
                 <<[fld[1] EXCEPT ![idx] = @ - FMul(f, Cos(t.yaw))],
                   [fld[2] EXCEPT ![idx] = @ - FMul(f, Sin(t.yaw))]>>,
                 n + 1)

\* Turbine::exec, the forcing loop from entry n on: fld is the pair <<u, v>>.
RECURSIVE apply_force(_, _, _, _)
apply_force(t, thrust, fld, n) ==
    IF n > Len(t.indices) THEN fld
    ELSE LET idx == t.indices[n]
             f == FMul(thrust, t.weights[n])
         IN  apply_force(t, thrust,
                 <<[fld[1] EXCEPT ![idx] = @ - FMul(f, Cos(t.yaw))],
                   [fld[2] EXCEPT ![idx] = @ - FMul(f, Sin(t.yaw))]>>,
                 n + 1)

NoSample == [xref |-> 0, yref |-> 0, iu |-> -1, ju |-> -1]

\* Turbine::exec, from the disk mean on: the power, and the forcing of u, v.
power_and_force(t, umean, u, v) ==
    [t |-> [t EXCEPT !.power = power_of(t, umean)],
     fld |-> apply_force(t, thrust_of(t, umean), <<u, v>>, 1)]

\* Turbine::exec after the yaw update yu.
disk_update(yu, u, v) ==
    [pf |-> power_and_force(yu.t, disk_mean(yu.t, u, v, 1), u, v),
     sample |-> yu.sample]

\* The result of Turbine::exec: the turbine, the fields, the upstream lookup.
exec_result(d) ==
    [t |-> d.pf.t, u |-> d.pf.fld[1], v |-> d.pf.fld[2], sample |-> d.sample]

\* Turbine::exec past the start-time gate.
force_power_update(t, u, v, time) ==
    exec_result(disk_update(IF t.swdynyaw /\ time >= t.next_yaw
                            THEN yaw_update(t, u, v, time)
                            ELSE [t |-> t, sample |-> NoSample],
                            u, v))

\* A faulty variant of Turbine_exec: the call at the start time is skipped too.
Turbine_exec_gate_inclusive(t, u, v, time) ==
    IF time <= t.turbstarttime
    THEN [t |-> t, u |-> u, v |-> v, sample |-> NoSample]
    ELSE force_power_update(t, u, v, time)

\* Turbine::exec.
Turbine_exec(t, u, v, time) ==
    IF time < t.turbstarttime
    THEN [t |-> t, u |-> u, v |-> v, sample |-> NoSample]
    ELSE force_power_update(t, u, v, time)

(***************************************************************************)
(* Windfarm                                                                *)
(***************************************************************************)
VARIABLES
    cfg,            \* the configuration read by the constructors
    u, v,           \* fields.mp.at("u")->fld and fields.mp.at("v")->fld
    turbines,       \* Windfarm::turbines
    farm_power,     \* Windfarm::farm_power
    pc,             \* "idle", or the loop a running call is in
    file,           \* create, file mode: the lines not yet read
    r, c,           \* create, procedural mode: the loop counters
    create_status,  \* "uncalled", "running", "ok", or the error thrown
    time,           \* exec: the time argument of the call
    it,             \* exec: the position of the loop in turbines
    last,           \* the call running or last returned: "create", "exec"
    ncalls,         \* number of calls made so far
    alone,          \* history: each turbine stepped alone on the fields
                    \* that the exec call found
    sample,         \* history: the upstream lookup of the last Turbine::exec
    layout,         \* history: the layout file as the create call opened it
    discarded       \* history: the turbines held when the create call began

vars == <<cfg, u, v, turbines, farm_power, pc, file, r, c, create_status,
          time, it, last, ncalls, alone, sample,
          layout, discarded>>

Configs ==
    {f @@ t : f \in ProceduralConfigs \cup FileConfigs, t \in TurbineConfigs}

\* Windfarm::Windfarm, and the fields as the host solver hands them over.
Init ==
    /\ cfg \in Configs
    /\ \E w \in Winds :
          /\ u = [n \in 0..(ncells - 1) |-> w[1]]
          /\ v = [n \in 0..(ncells - 1) |-> w[2]]
    /\ turbines = <<>>
    /\ farm_power = 0
    /\ pc = "idle"
    /\ file = <<>>
    /\ r = 0
    /\ c = 0
    /\ create_status = "uncalled"
    /\ time = 0
    /\ it = 1
    /\ last = "none"
    /\ ncalls = 0
    /\ alone = <<>>
    /\ sample = NoSample
    /\ layout = <<>>
    /\ discarded = 0

\* A faulty variant of near_boundary: the upper edges are not tested.
near_boundary_lower_only(x, y, diam) ==
    \/ x - TDiv(diam, 2) < 0
    \/ y - TDiv(diam, 2) < 0

\* The test of add_turb: the disk crosses an edge of the horizontal domain.
near_boundary(x, y, diam) ==
    \/ x - TDiv(diam, 2) < 0
    \/ x + TDiv(diam, 2) > xsize
    \/ y - TDiv(diam, 2) < 0
    \/ y + TDiv(diam, 2) > ysize

\* The lambda add_turb of Windfarm::create, past its test.
add_turb(ts, x, y, hh) == Append(ts, Turbine_create(Turbine(cfg, x, y, hh)))

\* Windfarm::create, procedural mode: the position of row row, column col.
grid_y(row) == cfg.farmlocy + row * cfg.spacingy * cfg.diam

\* A faulty variant of grid_offset: the even rows are the shifted ones.
grid_offset_even_rows(row) ==
    IF cfg.swstaggered /\ row % 2 = 0 THEN TDiv(cfg.spacingx * cfg.diam, 2) ELSE 0

grid_offset(row) ==
    IF cfg.swstaggered /\ row % 2 = 1 THEN TDiv(cfg.spacingx * cfg.diam, 2) ELSE 0

grid_x(row, col) == cfg.farmlocx + col * cfg.spacingx * cfg.diam + grid_offset(row)

\* A faulty variant of cleared: the earlier turbines are kept.
cleared_kept(ts) == ts

\* Windfarm::create: turbines.clear().
cleared(ts) == <<>>

\* A faulty variant of add_power: the power is assigned, not accumulated.
add_power_assigned(fp, t) == t.power

\* Windfarm::exec: farm_power += t.get_power().
add_power(fp, t) == fp + t.power

\* A call of create or exec by the host: the model makes MaxCalls of them.
CallStart(name) ==
    /\ pc = "idle"
    /\ ncalls < MaxCalls
    /\ ncalls' = ncalls + 1
    /\ last' = name

\* What a step of create leaves alone; the locals of exec are out of scope.
CreateFrame ==
    /\ UNCHANGED <<cfg, u, v, farm_power>>
    /\ time' = 0
    /\ it' = 1
    /\ alone' = <<>>
    /\ sample' = NoSample

\* Windfarm::create, file mode, the file cannot be opened.
CreateOpenFail ==
    /\ CallStart("create")
    /\ cfg.layoutfile # ""
    /\ turbines' = cleared(turbines)
    /\ discarded' = Len(turbines)
    /\ create_status' = "Cannot open layout file"
    /\ pc' = "idle"
    /\ layout' = <<>>
    /\ UNCHANGED <<file, r, c>>
    /\ CreateFrame

\* Windfarm::create, file mode, the file is opened.
CreateOpenFile ==
    /\ CallStart("create")
    /\ cfg.layoutfile # ""
    /\ turbines' = cleared(turbines)
    /\ discarded' = Len(turbines)
    /\ \E f \in Files : file' = f /\ layout' = f
    /\ create_status' = "running"
    /\ pc' = "create_file"
    /\ UNCHANGED <<r, c>>
    /\ CreateFrame

\* Windfarm::create, file mode, one turn of while (f >> x >> y >> hh).
CreateFileStep ==
    /\ pc = "create_file"
    /\ IF file = <<>>
       THEN /\ pc' = "idle"
            /\ create_status' = "ok"
            /\ UNCHANGED <<turbines, file>>
       ELSE LET l == Head(file)
            IN  IF near_boundary(l[1], l[2], cfg.diam)
                THEN /\ pc' = "idle"
                     /\ create_status' = "Turbine near boundary"
                     /\ file' = <<>>
                     /\ UNCHANGED turbines
                ELSE /\ turbines' = add_turb(turbines, l[1], l[2], l[3])
                     /\ file' = Tail(file)
                     /\ UNCHANGED <<pc, create_status>>
    /\ UNCHANGED <<r, c, last, ncalls, layout, discarded>>
    /\ CreateFrame

\* Windfarm::create, procedural mode, up to the first add_turb.
CreateProcedural ==
    /\ CallStart("create")
    /\ cfg.layoutfile = ""
    /\ turbines' = cleared(turbines)
    /\ discarded' = Len(turbines)
    /\ IF cfg.nturbrows > 0 /\ cfg.nturbcols > 0
       THEN pc' = "create_grid" /\ create_status' = "running"
       ELSE pc' = "idle" /\ create_status' = "ok"
    /\ layout' = <<>>
    /\ UNCHANGED <<file, r, c>>
    /\ CreateFrame

\* Windfarm::create, procedural mode, one add_turb and the loops' advance.
CreateGridStep ==
    /\ pc = "create_grid"
    /\ IF near_boundary(grid_x(r, c), grid_y(r), cfg.diam)
       THEN /\ pc' = "idle"
            /\ create_status' = "Turbine near boundary"
            /\ r' = 0
            /\ c' = 0
            /\ UNCHANGED turbines
       ELSE /\ turbines' = add_turb(turbines, grid_x(r, c), grid_y(r), -1)
            /\ IF c + 1 < cfg.nturbcols
               THEN r' = r /\ c' = c + 1 /\ UNCHANGED <<pc, create_status>>
               ELSE IF r + 1 < cfg.nturbrows
                    THEN r' = r + 1 /\ c' = 0 /\ UNCHANGED <<pc, create_status>>
                    ELSE r' = 0 /\ c' = 0 /\ pc' = "idle" /\ create_status' = "ok"
    /\ UNCHANGED <<file, last, ncalls, layout, discarded>>
    /\ CreateFrame

\* What each turbine of ts would report and write if it alone were stepped
\* at time t on the fields uu, vv: its power, its yaw, and the values of its
\* footprint cells.
SteppedAlone(ts, uu, vv, t) ==
    [n \in 1..Len(ts) |->
        LET a == Turbine_exec(ts[n], uu, vv, t)
        IN  [power |-> a.t.power, yaw |-> a.t.yaw,
             u |-> [m \in 1..Len(ts[n].indices) |-> a.u[ts[n].indices[m]]],
             v |-> [m \in 1..Len(ts[n].indices) |-> a.v[ts[n].indices[m]]]]]

\* Windfarm::exec up to the loop: farm_power = 0.
ExecBegin ==
    /\ CallStart("exec")
    /\ \E t \in Times : time' = t /\ alone' = SteppedAlone(turbines, u, v, t)
    /\ farm_power' = 0
    /\ it' = 1
    /\ pc' = IF turbines = <<>> THEN "idle" ELSE "exec"
    /\ sample' = NoSample
    /\ UNCHANGED <<cfg, u, v, turbines, file, r, c, create_status, layout,
                   discarded>>

\* Windfarm::exec, one turn of the loop: t.exec(stats, time) and
\* farm_power += t.get_power().
ExecStep ==
    /\ pc = "exec"
    /\ LET res == Turbine_exec(turbines[it], u, v, time)
       IN  /\ turbines' = [turbines EXCEPT ![it] = res.t]
           /\ u' = res.u
           /\ v' = res.v
           /\ sample' = res.sample
           /\ farm_power' = add_power(farm_power, res.t)
    /\ it' = it + 1
    /\ pc' = IF it = Len(turbines) THEN "idle" ELSE "exec"
    /\ UNCHANGED <<cfg, file, r, c, create_status, time, last, ncalls,
                   alone, layout, discarded>>

Next ==
    \/ CreateOpenFail
    \/ CreateOpenFile
    \/ CreateFileStep
    \/ CreateProcedural
    \/ CreateGridStep
    \/ ExecBegin
    \/ ExecStep

Spec == Init /\ [][Next]_vars

(***************************************************************************)
(* Properties                                                              *)
(***************************************************************************)
\* The sum of the reported powers of the first n turbines, in collection order.
RECURSIVE PowerSum(_, _)
PowerSum(ts, n) == IF n = 0 THEN 0 ELSE PowerSum(ts, n - 1) + ts[n].power

\* The call running, or the last one returned, is an exec that has stepped
\* turbine n.
Stepped(n) == last = "exec" /\ 1 <= n /\ n < it /\ n <= Len(turbines)

\* Turbine::exec has returned from its call on turbine it.
TurbineExecStep == pc = "exec"

\* The disk of a turbine at (x, y) lies within the horizontal domain.
DiskInDomain(x, y, diam) ==
    /\ 2 * x - diam >= 0
    /\ 2 * x + diam <= 2 * xsize
    /\ 2 * y - diam >= 0
    /\ 2 * y + diam <= 2 * ysize

\* i is the lowest index of s..(e-1) whose coordinate is nearest to val.
IsNearestLowest(i, val, arr, s, e) ==
    /\ i \in s..(e - 1)
    /\ \A j \in s..(e - 1) :
          \/ Abs(arr[i] * Scale - val) < Abs(arr[j] * Scale - val)
          \/ Abs(arr[i] * Scale - val) = Abs(arr[j] * Scale - val) /\ i <= j

NearestLowest(val, arr, s, e) ==
    CHOOSE i \in s..(e - 1) : IsNearestLowest(i, val, arr, s, e)

\* C1: after every Windfarm::exec call, whatever the time (also before the
\* activation time, when no power is recomputed), farm_power is the sum, in
\* collection order, of get_power() of every turbine of the collection.
C1_FarmPowerIsSum ==
    (pc = "idle" /\ last = "exec") =>
        farm_power = PowerSum(turbines, Len(turbines))

\* An exec call before the activation time has returned, on two turbines that
\* report the power of an earlier step.
C1_Witness ==
    /\ pc = "idle"
    /\ last = "exec"
    /\ Len(turbines) >= 2
    /\ time < turbines[1].turbstarttime
    /\ turbines[1].power # 0
    /\ farm_power = turbines[1].power + turbines[2].power

\* C2: Turbine::exec(time) with time < turbstarttime changes nothing of the
\* turbine (power, yaw, next_yaw, footprint) and no cell of u and v; with
\* time = turbstarttime the call is not gated: it does the force/power update.
C2_GatedExecIsNoOp ==
    [][TurbineExecStep =>
          LET t == turbines[it]
              upd == force_power_update(t, u, v, time)
          IN  /\ time < t.turbstarttime =>
                    turbines'[it] = t /\ u' = u /\ v' = v
              /\ time = t.turbstarttime =>
                    turbines'[it] = upd.t /\ u' = upd.u /\ v' = upd.v]_vars

\* Turbine n, with a non-empty footprint and a power reported earlier, has
\* been stepped at a time before its activation time.
C2_Witness ==
    \E n \in 1..Len(turbines) :
        /\ Stepped(n)
        /\ time < turbines[n].turbstarttime
        /\ turbines[n].indices # <<>>
        /\ turbines[n].power # 0
        /\ turbines[n].yaw # 0

\* C3: every turbine of the collection has its disk within the horizontal
\* domain, in every state; a candidate whose disk is not is never added: it
\* raises the boundary error and ends the create call.
C3_DisksInsideDomain ==
    /\ [](\A n \in 1..Len(turbines) :
             DiskInDomain(turbines[n].xpos, turbines[n].ypos, turbines[n].diam))
    /\ [][(\/ /\ pc = "create_file"
              /\ file # <<>>
              /\ ~DiskInDomain(Head(file)[1], Head(file)[2], cfg.diam)
           \/ /\ pc = "create_grid"
              /\ ~DiskInDomain(grid_x(r, c), grid_y(r), cfg.diam))
          => /\ turbines' = turbines
             /\ create_status' = "Turbine near boundary"
             /\ pc' = "idle"]_vars

\* A create call has failed on a candidate after it had accepted another.
C3_Witness ==
    /\ pc = "idle"
    /\ create_status = "Turbine near boundary"
    /\ Len(turbines) >= 1

\* C4: a procedural create call that succeeds yields nturbrows*nturbcols
\* turbines in row-major order, the one of row row and column col at
\* (farmlocx + col*spacingx*diam + offset, farmlocy + row*spacingy*diam),
\* offset = 0.5*spacingx*diam on odd rows when staggering is on, else 0.
C4_ProceduralLayout ==
    (pc = "idle" /\ create_status = "ok" /\ cfg.layoutfile = "") =>
        /\ Len(turbines) = cfg.nturbrows * cfg.nturbcols
        /\ \A row \in 0..(cfg.nturbrows - 1) : \A col \in 0..(cfg.nturbcols - 1) :
              LET t == turbines[row * cfg.nturbcols + col + 1]
              IN  /\ 2 * t.xpos =
                        2 * cfg.farmlocx + 2 * col * cfg.spacingx * cfg.diam
                        + (IF cfg.swstaggered /\ row % 2 = 1
                           THEN cfg.spacingx * cfg.diam ELSE 0)
                  /\ t.ypos = cfg.farmlocy + row * cfg.spacingy * cfg.diam

\* A staggered farm of two rows and two columns has been built.
C4_Witness ==
    /\ pc = "idle"
    /\ create_status = "ok"
    /\ cfg.layoutfile = ""
    /\ cfg.swstaggered
    /\ cfg.nturbrows >= 2
    /\ cfg.nturbcols >= 2
    /\ Len(turbines) >= 4

\* C5: in a Turbine::exec call past the gate, with dynamic yaw on and
\* time >= next_yaw, yaw moves 0.2 of the way to atan2(v, u) of the upstream
\* sample and next_yaw grows by yawperiod, once; otherwise both are unchanged.
C5_YawUpdate ==
    [][TurbineExecStep =>
          LET t == turbines[it]
              t2 == turbines'[it]
              iu == NearestLowest(t.xpos * Scale - t.diam * Cos(t.yaw),
                                  gd_x, istart, iend)
              ju == NearestLowest(t.ypos * Scale - t.diam * Sin(t.yaw),
                                  gd_y, jstart, jend)
              idx == iu + ju * jstride + t.k_hub * kstride
              target == Atan2(v[idx], u[idx])
          IN  time >= t.turbstarttime =>
                 IF t.swdynyaw /\ time >= t.next_yaw
                 THEN /\ Abs(5 * (t2.yaw - t.yaw) - (target - t.yaw)) < 5
                      /\ t2.next_yaw = t.next_yaw + t.yawperiod
                 ELSE /\ t2.yaw = t.yaw
                      /\ t2.next_yaw = t.next_yaw]_vars

\* Turbine n has updated its yaw in a call whose time was ahead of next_yaw:
\* next_yaw is now less than time + yawperiod.
C5_Witness ==
    \E n \in 1..Len(turbines) :
        /\ Stepped(n)
        /\ n = it - 1
        /\ sample.iu >= 0
        /\ turbines[n].yaw # 0
        /\ turbines[n].yawperiod > 0
        /\ turbines[n].next_yaw < time + turbines[n].yawperiod

Candidates ==
    IF cfg.layoutfile # "" THEN layout
    ELSE [n \in 1..(cfg.nturbrows * cfg.nturbcols) |->
             <<grid_x((n - 1) \div cfg.nturbcols, (n - 1) % cfg.nturbcols),
               grid_y((n - 1) \div cfg.nturbcols), -1>>]

\* C7: Windfarm::create first discards the turbines of an earlier call; when
\* it fails on a candidate, the collection is exactly the turbines accepted
\* before it in that call, in order; when the file cannot be opened, it is
\* empty.
C7_CreateFailure ==
    /\ [][(pc = "idle" /\ last' = "create" /\ ncalls' # ncalls)
             => turbines' = <<>>]_vars
    /\ []((pc = "idle" /\ last = "create"
             /\ create_status = "Turbine near boundary") =>
            \E k \in 1..Len(Candidates) :
                /\ ~DiskInDomain(Candidates[k][1], Candidates[k][2], cfg.diam)
                /\ Len(turbines) = k - 1
                /\ \A n \in 1..(k - 1) :
                      /\ DiskInDomain(Candidates[n][1], Candidates[n][2], cfg.diam)
                      /\ turbines[n] =
                            Turbine_create(Turbine(cfg, Candidates[n][1],
                                                   Candidates[n][2],
                                                   Candidates[n][3])))
    /\ []((pc = "idle" /\ last = "create"
             /\ create_status = "Cannot open layout file") => turbines = <<>>)

\* A create call that began with more turbines than it accepted has failed
\* on its second candidate.
C7_Witness ==
    /\ pc = "idle"
    /\ last = "create"
    /\ create_status = "Turbine near boundary"
    /\ Len(turbines) = 1
    /\ discarded >= 2

\* The footprints of the turbines are pairwise disjoint.
NonOverlapping(ts) ==
    \A a, b \in 1..Len(ts) :
        a # b =>
            \A m \in 1..Len(ts[a].indices) : \A n \in 1..Len(ts[b].indices) :
                ts[a].indices[m] # ts[b].indices[n]

\* C8: with pairwise non-overlapping footprints, after a Windfarm::exec call
\* every turbine has the power and the yaw, and its footprint cells the
\* values of u and v, that it would have got by stepping alone on the flow
\* field as the call found it.
C8_NoInteraction ==
    (pc = "idle" /\ last = "exec" /\ NonOverlapping(turbines)) =>
        \A n \in 1..Len(turbines) :
            /\ turbines[n].power = alone[n].power
            /\ turbines[n].yaw = alone[n].yaw
            /\ \A m \in 1..Len(turbines[n].indices) :
                  /\ u[turbines[n].indices[m]] = alone[n].u[m]
                  /\ v[turbines[n].indices[m]] = alone[n].v[m]

C10_NearestIndex ==
    /\ \A n \in 1..Len(turbines) :
          IsNearestLowest(turbines[n].k_hub, turbines[n].hhub * Scale,
                          gd_z, kstart, kend)
    /\ sample.iu >= 0 =>
          /\ IsNearestLowest(sample.iu, sample.xref, gd_x, istart, iend)
          /\ IsNearestLowest(sample.ju, sample.yref, gd_y, jstart, jend)

\* A yaw update has looked up a target midway between two cell centres in x,
\* for a turbine whose hub height is midway between two levels.
C10_Witness ==
    /\ Stepped(it - 1)
    /\ sample.iu >= 0
    /\ \E j \in (sample.iu + 1)..(iend - 1) :
          Abs(gd_x[j] * Scale - sample.xref) = Abs(gd_x[sample.iu] * Scale - sample.xref)
    /\ \E k \in (turbines[it - 1].k_hub + 1)..(kend - 1) :
          Abs(gd_z[k] - turbines[it - 1].hhub)
              = Abs(gd_z[turbines[it - 1].k_hub] - turbines[it - 1].hhub)

=============================================================================
